---- MODULE Spec2Model ----
(***************************************************************************)
(* State-machine model of the WIDE-EYE dispatcher core:                    *)
(*   dispatcher/task_manager.py      (Task Store)                          *)
(*   dispatcher/collector_manager.py (Fleet Registry, Assignment Engine)   *)
(*   dispatcher/dispatcher.py        (RPC handlers, Result Bus, sweeper)   *)
(*                                                                         *)
(* Time is a discrete clock `now`; every instant is an integer.  The Task  *)
(* Store keeps instants as ISO-8601 strings and the sweeper compares the   *)
(* strings, so IsoFormat/StrLeq model that comparison.                     *)
(***************************************************************************)
EXTENDS Integers, Sequences, FiniteSets, TLC

\* ------------------------------------------------------------- bounds ----
MaxTime == 4          \* the clock runs over 1..MaxTime
MaxBusTime == 2       \* the clock of the Result Bus runs stops here
MaxPush == 2          \* SubmitTaskResult calls in one run
MaxUuid == 3          \* uuid4() values drawn for session tokens in one run
MaxLogins == 1        \* successful client Login calls in one run
MaxHeartbeats == 2    \* cap of a collector's heartbeat_count
MaxBeats == 3         \* the same cap in the runs of repeated heartbeats
MaxAssigned == 2      \* cap of a collector's tasks_assigned_count

TaskIds == {"t1", "t2"}
BusTaskIds == {"t1"}  \* the task ids the Result Bus runs use
FailoverTaskIds == {"t1"}
StreamIds == {"s1", "s2"}
Usernames == {"alice"}
Passwords == {"pw"}

\* the handler threads of the runs with calls in flight
RegThreads == {"r1", "r2"}
AssignThreads == {"a1", "a2"}

Put(f, k, v) == [x \in DOMAIN f \cup {k} |-> IF x = k THEN v ELSE f[x]]

\* ------------------------------------------------- ISO-8601 instants ----
\* datetime.isoformat() of a UTC instant: the seconds, then ".ffffff" only
\* when the microseconds are not zero, then "+00:00".  Instant t has t \div 2
\* whole seconds and (t % 2) half seconds; characters are their code points
\* ('+' = 43, '.' = 46, '0' = 48, '5' = 53).
IsoFormat(t) ==
  <<48 + (t \div 2)>> \o (IF t % 2 = 0 THEN <<>> ELSE <<46, 53>>) \o <<43>>

\* Python's str <= str: lexicographic by code point.
RECURSIVE StrLeq(_, _)
StrLeq(a, b) ==
  IF a = <<>> THEN TRUE
  ELSE IF b = <<>> THEN FALSE
  ELSE IF Head(a) < Head(b) THEN TRUE
  ELSE IF Head(a) > Head(b) THEN FALSE
  ELSE StrLeq(Tail(a), Tail(b))

Range(q) == {q[i] : i \in DOMAIN q}

\* ---------------------------------------------------------- str ----
\* A str is the sequence of its characters' code points: ' ' = 32,
\* ',' = 44, 'A'..'Z' = 65..90, 'a'..'z' = 97..122.
IsSpace(c) == c = 32 \/ (c >= 9 /\ c <= 13)

\* str.lower()
Lower(s) == [i \in DOMAIN s |-> IF s[i] >= 65 /\ s[i] <= 90 THEN s[i] + 32 ELSE s[i]]

\* str.strip()
RECURSIVE LStrip(_)
LStrip(s) == IF s # <<>> /\ IsSpace(Head(s)) THEN LStrip(Tail(s)) ELSE s

RECURSIVE RStrip(_)
RStrip(s) ==
  IF s # <<>> /\ IsSpace(s[Len(s)]) THEN RStrip(SubSeq(s, 1, Len(s) - 1)) ELSE s

Strip(s) == RStrip(LStrip(s))

\* str.split(","): the parts between the commas, "" gives [""]
RECURSIVE SplitFrom(_, _)
SplitFrom(s, part) ==
  IF s = <<>> THEN <<part>>
  ELSE IF Head(s) = 44 THEN <<part>> \o SplitFrom(Tail(s), <<>>)
  ELSE SplitFrom(Tail(s), Append(part, Head(s)))

Split(s) == SplitFrom(s, <<>>)

\* [c.strip() for c in s.split(",") if c.strip()]
SplitStrip(s) ==
  LET parts == Split(s)
  IN  SelectSeq([i \in DOMAIN parts |-> Strip(parts[i])], LAMBDA c : c # <<>>)

\* the tags of the runs: "g", "n", "i"
CatGen == <<103>>
CatNon == <<110>>
LocInt == <<105>>
Categories == {CatGen, CatNon}

\* ------------------------------------------------------------ state ----
VARIABLES
  now,            \* the wall clock (time.time(), datetime.now())
  uuids,          \* number of uuid4() session tokens drawn so far
  users,          \* UserManager's users table: username -> [salt, password_hash]
  user_tokens,    \* DispatcherService._user_tokens: token -> username
  tasks,          \* TaskManager's tasks table: task_id -> row
  results,        \* the Result Bus queues: task_id -> list of TaskResult
  cond_owner,     \* holder of each task's threading.Condition lock ("" = free)
  push_log,       \* history: every TaskResult appended for a task, in order
  st_pc,          \* StreamResults generators: position in the loop
  st_task,        \* StreamResults generators: request.task_id
  st_out,         \* StreamResults generators: the TaskResults yielded so far
  sw_pc,          \* the sweeper thread: position in its loop
  sw_todo,        \* the sweeper thread: expired rows of the current pass not yet marked
  collectors,     \* CollectorManager._collectors: the CollectorInfo objects, in insertion order
  tokens,         \* CollectorManager._tokens: token -> collector name
  tk_pc,          \* StreamTasks generators, one per collector name: position in the loop
  tk_sent,        \* StreamTasks generators: the `sent` set
  tk_todo,        \* StreamTasks generators: items of info.get_tasks() not yet visited
  tk_out,         \* StreamTasks generators: the TaskAssignments yielded so far
  tk_failures,    \* StreamTasks generators: `failures`, the triples of the last failover call
  resp,           \* the response of the last Register, StartTask, SubmitTaskResult,
                  \* RegisterCollector or Heartbeat call, or the status of
                  \* the last StreamTasks call that was aborted or raised, or
                  \* the value of the last purge_expired_tasks call made
                  \* on the manager
  self_sources,   \* DispatcherService.sources: the catalog held in memory
  sources_file,   \* the content of dispatcher/sources.json
  rg,             \* Register calls in flight, one per handler thread
  ab              \* assign_task_balanced calls in flight, one per thread

authVars == <<uuids, users, user_tokens>>
taskVars == <<tasks>>
busVars == <<results, cond_owner, push_log>>
streamVars == <<st_pc, st_task, st_out>>
sweeperVars == <<sw_pc, sw_todo>>
fleetVars == <<collectors, tokens>>
taskStreamVars == <<tk_pc, tk_sent, tk_todo, tk_out, tk_failures>>
catalogVars == <<self_sources, sources_file>>
callVars == <<rg, ab>>
vars == <<now, authVars, taskVars, busVars, streamVars, sweeperVars, fleetVars,
          taskStreamVars, resp, catalogVars, callVars>>

\* A response message: its success and task_id fields (task_id is "" when
\* the message has none), and the status code of the call; a handler that
\* raises returns no message and grpc_safe sets the code to INTERNAL.
Response(op, success, task_id, message) ==
  [op |-> op, success |-> success, task_id |-> task_id, message |-> message,
   code |-> "OK"]

InternalError(op, message) ==
  [op |-> op, success |-> FALSE, task_id |-> "", message |-> message,
   code |-> "INTERNAL"]

\* StreamResults and StreamTasks are generator functions: the call
\* f(self, request, context) inside grpc_safe's try returns the generator
\* without running its body, so an exception raised while the stream is
\* iterated passes outside the wrapper: set_code(INTERNAL) does not run and
\* the call ends with the status the gRPC runtime gives to an exception of
\* the servicer, UNKNOWN.
StreamError(op, message) ==
  [op |-> op, success |-> FALSE, task_id |-> "", message |-> message,
   code |-> "UNKNOWN"]

Terminal == {"COMPLETED", "FAILED", "CANCELLED"}

\* The catalog loaded at start-up (dispatcher/sources.json).
CatalogSources ==
  << [id |-> "sA", categories |-> <<CatGen>>, locations |-> <<LocInt>>],
     [id |-> "sB", categories |-> <<CatGen>>, locations |-> <<LocInt>>] >>

\* ---------------------------------------------------------- the clock ----
Tick ==
  /\ now < MaxTime
  /\ now' = now + 1
  /\ UNCHANGED <<authVars, taskVars, busVars, streamVars, sweeperVars, fleetVars, taskStreamVars, resp, catalogVars, callVars>>

\* ------------------------------------------------------- User Store ----
\* hashlib.pbkdf2_hmac is a function of (password, salt).
HashPassword(password, salt) == <<"pbkdf2", password, salt>>

\* a register_user without the SELECT for an existing row
register_user_overwrite(username, password, salt) ==
  /\ users' = Put(users, username,
                  [salt |-> salt, password_hash |-> HashPassword(password, salt)])
  /\ resp' = Response("Register", TRUE, "", "User registered.")

\* salt is the value of os.urandom(16)
register_user(username, password, salt) ==
  IF username \in DOMAIN users
  THEN /\ UNCHANGED users
       /\ resp' = Response("Register", FALSE, "", "Username already exists.")
  ELSE /\ users' = Put(users, username,
                       [salt |-> salt, password_hash |-> HashPassword(password, salt)])
       /\ resp' = Response("Register", TRUE, "", "User registered.")

authenticate_user(username, password) ==
  /\ username \in DOMAIN users
  /\ HashPassword(password, users[username].salt) = users[username].password_hash

Register(username, password) ==
  /\ register_user(username, password, "salt")
  /\ UNCHANGED <<now, uuids, user_tokens, taskVars, busVars, streamVars, sweeperVars, fleetVars, taskStreamVars, catalogVars, callVars>>

Login(username, password) ==
  /\ authenticate_user(username, password)
  /\ uuids < MaxUuid
  /\ Cardinality(DOMAIN user_tokens) < MaxLogins
  /\ uuids' = uuids + 1
  /\ user_tokens' = Put(user_tokens, uuids + 1, username)
  /\ UNCHANGED <<now, users, taskVars, busVars, streamVars, sweeperVars, fleetVars, taskStreamVars, resp, catalogVars, callVars>>

\* A Register call in flight on a handler thread (the server runs its
\* handlers on a pool of threads; the connection is shared and no lock is
\* taken around register_user):
\*   "idle"    no call on the thread
\*   "insert"  the SELECT found no row; before the INSERT
IdleRegister == [pc |-> "idle", username |-> "", password |-> ""]

\* cursor.execute("SELECT 1 ..."); `if cursor.fetchone(): return False, ...`
RegisterSelect(r, username, password) ==
  /\ rg[r].pc = "idle"
  /\ IF username \in DOMAIN users
     THEN /\ resp' = Response("Register", FALSE, "", "Username already exists.")
          /\ UNCHANGED rg
     ELSE /\ rg' = [rg EXCEPT ![r] = [pc |-> "insert", username |-> username,
                                      password |-> password]]
          /\ UNCHANGED resp
  /\ UNCHANGED <<ab, now, authVars, taskVars, busVars, streamVars, sweeperVars, fleetVars, taskStreamVars, catalogVars>>

\* the INSERT and the commit.  username is the PRIMARY KEY: when a row with
\* it exists by now the INSERT raises sqlite3.IntegrityError, which
\* grpc_safe turns into INTERNAL.
RegisterInsert(r) ==
  /\ rg[r].pc = "insert"
  /\ IF rg[r].username \in DOMAIN users
     THEN /\ UNCHANGED users
          /\ resp' = InternalError("Register", "IntegrityError")
     ELSE /\ users' = Put(users, rg[r].username,
                          [salt |-> "salt",
                           password_hash |-> HashPassword(rg[r].password, "salt")])
          /\ resp' = Response("Register", TRUE, "", "User registered.")
  /\ rg' = [rg EXCEPT ![r] = IdleRegister]
  /\ UNCHANGED <<ab, now, uuids, user_tokens, taskVars, busVars, streamVars, sweeperVars, fleetVars, taskStreamVars, catalogVars>>

\* ------------------------------------------------------- Task Store ----
create_task(task_id, token, start_time, end_time) ==
  Put(tasks, task_id,
      [token |-> token, start_time |-> start_time, end_time |-> end_time,
       status |-> "PENDING",
       created_at |-> Cardinality(DOMAIN tasks) + 1])

\* an update that follows the lifecycle: a COMPLETED, FAILED or CANCELLED
\* row keeps its status
update_status_guarded(tbl, task_id, new_status) ==
  [t \in DOMAIN tbl |->
     IF t = task_id /\ tbl[t].status \in {"PENDING", "DISPATCHED"}
     THEN [tbl[t] EXCEPT !.status = new_status]
     ELSE tbl[t]]

\* UPDATE tasks SET status = ? WHERE task_id = ?: no row, no change
update_status(tbl, task_id, new_status) ==
  [t \in DOMAIN tbl |-> IF t = task_id THEN [tbl[t] EXCEPT !.status = new_status]
                        ELSE tbl[t]]

mark_dispatched(tbl, task_id) == update_status(tbl, task_id, "DISPATCHED")

mark_completed(tbl, task_id) == update_status(tbl, task_id, "COMPLETED")

mark_failed(tbl, task_id) == update_status(tbl, task_id, "FAILED")

\* get_task: the row, or None (here the empty tuple) when there is none
get_task(tbl, task_id) == IF task_id \in DOMAIN tbl THEN tbl[task_id] ELSE <<>>

\* list_tasks(statuses = [PENDING, DISPATCHED]) ORDER BY created_at DESC.
RECURSIVE ByCreatedDesc(_, _)
ByCreatedDesc(tbl, ids) ==
  IF ids = {} THEN <<>>
  ELSE LET t == CHOOSE x \in ids : \A y \in ids : tbl[y].created_at <= tbl[x].created_at
       IN <<t>> \o ByCreatedDesc(tbl, ids \ {t})

\* the listing without the PENDING rows
list_dispatched_only ==
  ByCreatedDesc(tasks, {t \in DOMAIN tasks : tasks[t].status \in {"DISPATCHED"}})

list_pending_or_dispatched ==
  ByCreatedDesc(tasks, {t \in DOMAIN tasks : tasks[t].status \in {"PENDING", "DISPATCHED"}})

cancel_task(task_id) ==
  /\ task_id \in DOMAIN tasks
  /\ tasks' = update_status(tasks, task_id, "CANCELLED")
  /\ UNCHANGED <<now, authVars, busVars, streamVars, sweeperVars, fleetVars, taskStreamVars, resp, catalogVars, callVars>>

\* ---------------------------------------------------- Source Catalog ----
\* a match that returns the whole catalog
match_sources_all(task_categories, task_locations, catalog) == catalog

\* {c.strip().lower() for c in task_categories if c.strip()}
RequestSet(items) == {Lower(Strip(c)) : c \in {x \in Range(items) : Strip(x) # <<>>}}

\* the normalised tags of one catalog field: every entry is split on commas,
\* each part stripped and lowercased, empty parts dropped
SourceTags(entries) ==
  {c \in {Lower(Strip(part)) :
            part \in UNION {Range(Split(entries[i])) : i \in DOMAIN entries}} :
     c # <<>>}

\* a match on either dimension in place of both
MatchEither(cat_set, loc_set, catalog) ==
  SelectSeq(catalog, LAMBDA source :
    \/ SourceTags(source.categories) \cap cat_set # {}
    \/ SourceTags(source.locations) \cap loc_set # {})

\* the loop over the catalog, with cat_set and loc_set computed once
MatchSets(cat_set, loc_set, catalog) ==
  SelectSeq(catalog, LAMBDA source :
    /\ SourceTags(source.categories) \cap cat_set # {}
    /\ SourceTags(source.locations) \cap loc_set # {})

match_sources(task_categories, task_locations, catalog) ==
  MatchSets(RequestSet(task_categories), RequestSet(task_locations), catalog)

\* sorted(set of str): ascending by code point
RECURSIVE Sorted(_)
Sorted(S) ==
  IF S = {} THEN <<>>
  ELSE LET m == CHOOSE x \in S : \A y \in S : StrLeq(x, y)
       IN  <<m>> \o Sorted(S \ {m})

\* the tags of one catalog field as the listings show them: split on commas
\* and stripped, case kept, empty parts dropped
CleanTags(entries) ==
  {c \in {Strip(part) :
            part \in UNION {Range(Split(entries[i])) : i \in DOMAIN entries}} :
     c # <<>>}

list_available_categories(catalog) ==
  Sorted(UNION {CleanTags(catalog[i].categories) : i \in DOMAIN catalog})

list_available_locations(catalog) ==
  Sorted(UNION {CleanTags(catalog[i].locations) : i \in DOMAIN catalog})

\* load_sources: json.load of the file as it is now
load_sources == sources_file

\* The contents dispatcher/sources.json takes in the runs of the catalog:
\* the start-up catalog; one with " G,n" / "I " on sA and "n" / "u" on sB;
\* one whose only source has the category entry ",".
CatalogFiles ==
  { CatalogSources,
    << [id |-> "sA", categories |-> << <<32, 71, 44, 110>> >>, locations |-> << <<73, 32>> >>],
       [id |-> "sB", categories |-> <<CatNon>>, locations |-> << <<117>> >>] >>,
    << [id |-> "sC", categories |-> << <<44>> >>, locations |-> <<LocInt>>] >> }

\* an operator edits dispatcher/sources.json
WriteCatalogFile(content) ==
  /\ sources_file' = content
  /\ UNCHANGED <<self_sources, now, authVars, taskVars, busVars, streamVars, sweeperVars, fleetVars, taskStreamVars, resp, callVars>>

\* match_sources called on the catalog in memory; resp is the value returned
MatchSources(task_categories, task_locations) ==
  /\ resp' = [op |-> "match_sources", success |-> TRUE, task_id |-> "",
              message |-> "", code |-> "OK",
              matched |-> match_sources(task_categories, task_locations, self_sources)]
  /\ UNCHANGED <<now, authVars, taskVars, busVars, streamVars, sweeperVars, fleetVars, taskStreamVars, catalogVars, callVars>>

\* ---------------------------------------------------- Fleet Registry ----
Collectors == {"w1", "w2"}
Secrets == {"k1"}

\* DISPATCHER_CONFIG["heartbeat_timeout"], in clock ticks
HeartbeatTimeout == 1
\* choose_least_loaded_collector(max_idle = 60.0), in clock ticks
DefaultMaxIdle == 60

\* CollectorInfo.__init__ ; token, last_heartbeat, last_result_time: 0 is None
CollectorInfo(name, secret) ==
  [name |-> name, secret |-> secret, token |-> 0, last_heartbeat |-> 0,
   assigned_tasks |-> <<>>, tasks_assigned_count |-> 0,
   tasks_completed_count |-> 0, heartbeat_count |-> 0, last_result_time |-> 0]

Names(colls) == {colls[i].name : i \in DOMAIN colls}

\* self._collectors.get(name), as a position in the dict (0: not found)
IndexOf(colls, name) ==
  IF name \in Names(colls) THEN CHOOSE i \in DOMAIN colls : colls[i].name = name ELSE 0

\* dict[key] = entry for a dict kept as the sequence of its items: an
\* existing key keeps its position and gets the new value
DictSet(items, entry) ==
  IF \E i \in DOMAIN items : items[i].task_id = entry.task_id
  THEN [i \in DOMAIN items |-> IF items[i].task_id = entry.task_id THEN entry ELSE items[i]]
  ELSE Append(items, entry)

\* a record_heartbeat that does not count
record_heartbeat_uncounted(info, timestamp) ==
  [info EXCEPT !.last_heartbeat = timestamp]

record_heartbeat(info, timestamp) ==
  [info EXCEPT !.last_heartbeat = timestamp, !.heartbeat_count = @ + 1]

assign_task(info, task_id, sources, end_time) ==
  [info EXCEPT
     !.assigned_tasks = DictSet(@, [task_id |-> task_id, sources |-> sources,
                                    end_time |-> end_time]),
     !.tasks_assigned_count = @ + 1]

record_task_result(info, task_id, timestamp) ==
  [info EXCEPT !.tasks_completed_count = @ + 1, !.last_result_time = timestamp]

\* a register_collector without the `if name in self._collectors` test
register_collector_overwrite(name, secret) ==
  /\ collectors' = IF name \in Names(collectors)
                    THEN [collectors EXCEPT ![IndexOf(collectors, name)] =
                            CollectorInfo(name, secret)]
                    ELSE Append(collectors, CollectorInfo(name, secret))
  /\ resp' = Response("RegisterCollector", TRUE, "", "registered successfully")
  /\ UNCHANGED <<tokens, now, authVars, taskVars, busVars, streamVars, sweeperVars, taskStreamVars, catalogVars, callVars>>

register_collector(name, secret) ==
  /\ IF name \in Names(collectors)
     THEN /\ UNCHANGED collectors               \* "... is already registered."
          /\ resp' = Response("RegisterCollector", FALSE, "", "already registered")
     ELSE /\ collectors' = Append(collectors, CollectorInfo(name, secret))
          /\ resp' = Response("RegisterCollector", TRUE, "", "registered successfully")
  /\ UNCHANGED <<tokens, now, authVars, taskVars, busVars, streamVars, sweeperVars, taskStreamVars, catalogVars, callVars>>

login_collector(name, secret) ==
  /\ name \in Names(collectors)
  /\ collectors[IndexOf(collectors, name)].secret = secret
  /\ uuids < MaxUuid
  /\ collectors[IndexOf(collectors, name)].heartbeat_count < MaxHeartbeats
  /\ uuids' = uuids + 1
  /\ collectors' = [collectors EXCEPT ![IndexOf(collectors, name)] =
                      record_heartbeat([@ EXCEPT !.token = uuids + 1], now)]
  /\ tokens' = Put(tokens, uuids + 1, name)
  /\ UNCHANGED <<now, users, user_tokens, taskVars, busVars, streamVars, sweeperVars, taskStreamVars, resp, catalogVars, callVars>>

\* the test heartbeat and record_task_result make of a token
TokenAccepted(token) == token \in DOMAIN tokens /\ tokens[token] \in Names(collectors)

\* the collector of an accepted token has sent fewer than cap heartbeats
\* (the bound the runs put on heartbeat_count)
BeatsBelow(token, cap) ==
  TokenAccepted(token) =>
    collectors[IndexOf(collectors, tokens[token])].heartbeat_count < cap

\* a heartbeat that answers True for a token it does not know
heartbeat_always_ok(token, timestamp) ==
  /\ IF TokenAccepted(token)
     THEN /\ collectors' = [collectors EXCEPT ![IndexOf(collectors, tokens[token])] =
                              record_heartbeat(@, timestamp)]
     ELSE UNCHANGED collectors
  /\ resp' = Response("Heartbeat", TRUE, "", "Heartbeat recorded.")
  /\ UNCHANGED <<tokens, now, authVars, taskVars, busVars, streamVars, sweeperVars, taskStreamVars, catalogVars, callVars>>

heartbeat(token, timestamp) ==
  /\ IF TokenAccepted(token)
     THEN /\ collectors' = [collectors EXCEPT ![IndexOf(collectors, tokens[token])] =
                              record_heartbeat(@, timestamp)]
          /\ resp' = Response("Heartbeat", TRUE, "", "Heartbeat recorded.")
     ELSE /\ UNCHANGED collectors               \* "Invalid or expired token."
          /\ resp' = Response("Heartbeat", FALSE, "", "Invalid or expired token.")
  /\ UNCHANGED <<tokens, now, authVars, taskVars, busVars, streamVars, sweeperVars, taskStreamVars, catalogVars, callVars>>

\* a candidate test that forgets the idle limit
IsCandidateAnyAge(info, t_now, max_idle) == info.last_heartbeat # 0

\* the candidates of choose_least_loaded_collector, in dict order
IsCandidate(info, t_now, max_idle) ==
  info.last_heartbeat # 0 /\ t_now - info.last_heartbeat <= max_idle

\* a choice that takes the last of the minimal candidates
choose_least_loaded_last(colls, t_now, max_idle) ==
  LET cand == {i \in DOMAIN colls : IsCandidate(colls[i], t_now, max_idle)} IN
  IF cand = {} THEN 0
  ELSE CHOOSE i \in cand :
         \A j \in cand :
           \/ Len(colls[i].assigned_tasks) < Len(colls[j].assigned_tasks)
           \/ Len(colls[i].assigned_tasks) = Len(colls[j].assigned_tasks) /\ i >= j

\* max in place of min
choose_most_loaded(colls, t_now, max_idle) ==
  LET cand == {i \in DOMAIN colls : IsCandidate(colls[i], t_now, max_idle)} IN
  IF cand = {} THEN 0
  ELSE CHOOSE i \in cand :
         \A j \in cand :
           \/ Len(colls[i].assigned_tasks) > Len(colls[j].assigned_tasks)
           \/ Len(colls[i].assigned_tasks) = Len(colls[j].assigned_tasks) /\ i <= j

\* min(candidates, key = len(assigned_tasks)): the first of the minimal ones;
\* the result is the collector's position in colls, 0 for None
choose_least_loaded_collector(colls, t_now, max_idle) ==
  LET cand == {i \in DOMAIN colls : IsCandidate(colls[i], t_now, max_idle)} IN
  IF cand = {} THEN 0
  ELSE CHOOSE i \in cand :
         \A j \in cand :
           \/ Len(colls[i].assigned_tasks) < Len(colls[j].assigned_tasks)
           \/ Len(colls[i].assigned_tasks) = Len(colls[j].assigned_tasks) /\ i <= j

\* assign_task_to_collector on a registry value; colls unchanged when the
\* token is not in the index
AssignByToken(colls, toks, token, task_id, sources, end_time) ==
  IF token \notin DOMAIN toks THEN colls
  ELSE [colls EXCEPT ![IndexOf(colls, toks[token])] =
          assign_task(@, task_id, sources, end_time)]

assign_task_to_collector(token, task_id, sources, end_time) ==
  /\ token \in DOMAIN tokens
  /\ tokens[token] \in Names(collectors)
  /\ collectors[IndexOf(collectors, tokens[token])].tasks_assigned_count < MaxAssigned
  /\ collectors' = AssignByToken(collectors, tokens, token, task_id, sources, end_time)
  /\ UNCHANGED <<tokens, now, authVars, taskVars, busVars, streamVars, sweeperVars, taskStreamVars, resp, catalogVars, callVars>>

\* an assign_task_balanced whose test of the chosen collector is inverted:
\* it reports "No available collectors" whenever one was chosen
AssignBalancedRefused(colls, toks, t_now, max_idle, task_id, sources, end_time) ==
  colls

\* assign_task_balanced on a registry value
AssignBalanced(colls, toks, t_now, max_idle, task_id, sources, end_time) ==
  LET i == choose_least_loaded_collector(colls, t_now, max_idle) IN
  IF i = 0 \/ colls[i].token = 0 THEN colls
  ELSE AssignByToken(colls, toks, colls[i].token, task_id, sources, end_time)

assign_task_balanced(task_id, sources, end_time) ==
  /\ \A i \in DOMAIN collectors : collectors[i].tasks_assigned_count < MaxAssigned
  /\ collectors' = AssignBalanced(collectors, tokens, now, DefaultMaxIdle,
                                  task_id, sources, end_time)
  /\ UNCHANGED <<tokens, now, authVars, taskVars, busVars, streamVars, sweeperVars, taskStreamVars, resp, catalogVars, callVars>>

\* An assign_task_balanced call in flight on a thread.  The method takes
\* self._lock twice: in choose_least_loaded_collector while it collects the
\* candidates, and in assign_task_to_collector; min() and the reads of
\* info.token run between the two with the lock released.
\*   "idle"    no call on the thread
\*   "min"     the candidates are collected, the lock is released
\*   "record"  a collector is chosen; before assign_task_to_collector
IdleAssign ==
  [pc |-> "idle", task_id |-> "", sources |-> <<>>, end_time |-> 0,
   candidates |-> <<>>, token |-> 0]

\* `with self._lock:` the loop that appends the candidates, in dict order
AssignCollect(a, task_id, sources, end_time) ==
  /\ ab[a].pc = "idle"
  /\ ab' = [ab EXCEPT ![a] =
       [pc |-> "min", task_id |-> task_id, sources |-> sources, end_time |-> end_time,
        candidates |-> SelectSeq([i \in DOMAIN collectors |-> collectors[i].name],
                         LAMBDA n : IsCandidate(collectors[IndexOf(collectors, n)],
                                                now, DefaultMaxIdle)),
        token |-> 0]]
  /\ UNCHANGED <<rg, now, authVars, taskVars, busVars, streamVars, sweeperVars, fleetVars, taskStreamVars, resp, catalogVars>>

\* the first of the candidates with the fewest assignments, read now
MinCandidate(colls, candidates) ==
  CHOOSE k \in DOMAIN candidates :
    \A j \in DOMAIN candidates :
      LET lk == Len(colls[IndexOf(colls, candidates[k])].assigned_tasks)
          lj == Len(colls[IndexOf(colls, candidates[j])].assigned_tasks)
      IN  lk < lj \/ (lk = lj /\ k <= j)

\* `if not candidates: return None`; min(candidates, key = ...); then
\* `if not info or not info.token: return False, ...`
AssignMin(a) ==
  /\ ab[a].pc = "min"
  /\ LET chosen == IF ab[a].candidates = <<>> THEN 0
                   ELSE collectors[IndexOf(collectors,
                          ab[a].candidates[MinCandidate(collectors, ab[a].candidates)])].token
     IN  ab' = [ab EXCEPT ![a] =
                  IF chosen = 0 THEN IdleAssign
                  ELSE [@ EXCEPT !.pc = "record", !.token = chosen]]
  /\ UNCHANGED <<rg, now, authVars, taskVars, busVars, streamVars, sweeperVars, fleetVars, taskStreamVars, resp, catalogVars>>

\* assign_task_to_collector(info.token, task_id, sources, end_time)
AssignRecord(a) ==
  /\ ab[a].pc = "record"
  /\ collectors' = AssignByToken(collectors, tokens, ab[a].token, ab[a].task_id,
                                 ab[a].sources, ab[a].end_time)
  /\ ab' = [ab EXCEPT ![a] = IdleAssign]
  /\ UNCHANGED <<rg, tokens, now, authVars, taskVars, busVars, streamVars, sweeperVars, taskStreamVars, resp, catalogVars>>

\* a purge that keeps the assignments ending exactly now
PurgeExpiredStrict(colls, t_now) ==
  [i \in DOMAIN colls |->
     [colls[i] EXCEPT !.assigned_tasks =
        SelectSeq(@, LAMBDA e : ~(t_now > e.end_time))]]

\* purge_expired_tasks on a registry value
PurgeExpired(colls, t_now) ==
  [i \in DOMAIN colls |->
     [colls[i] EXCEPT !.assigned_tasks =
        SelectSeq(@, LAMBDA e : ~(t_now >= e.end_time))]]

\* the list purge_expired_tasks returns: a (collector_name, task_id) pair for
\* each assignment it deletes, in the order of the two loops
RECURSIVE PurgedPairs(_, _)
PurgedPairs(colls, t_now) ==
  IF colls = <<>> THEN <<>>
  ELSE LET gone == SelectSeq(Head(colls).assigned_tasks, LAMBDA e : t_now >= e.end_time)
       IN [k \in DOMAIN gone |-> <<Head(colls).name, gone[k].task_id>>]
          \o PurgedPairs(Tail(colls), t_now)

has_task_expired(colls, task_id, t_now) ==
  \E i \in DOMAIN colls : \E k \in DOMAIN colls[i].assigned_tasks :
    /\ colls[i].assigned_tasks[k].task_id = task_id
    /\ t_now >= colls[i].assigned_tasks[k].end_time

\* CollectorManager.purge_expired_tasks() called on the manager; resp is
\* the value returned, with the list in its field `expired`
purge_expired_tasks ==
  /\ collectors' = PurgeExpired(collectors, now)
  /\ resp' = [op |-> "purge_expired_tasks", success |-> TRUE, task_id |-> "",
              message |-> "", code |-> "OK",
              expired |-> PurgedPairs(collectors, now)]
  /\ UNCHANGED <<tokens, now, authVars, taskVars, busVars, streamVars, sweeperVars, taskStreamVars, catalogVars, callVars>>

\* failover_dead_collectors(heartbeat_timeout).  CollectorManager does not
\* define it; this is the Fleet Registry operation as the specification
\* gives it: the collectors whose last heartbeat is older than twice the
\* timeout leave the registry and the token index, and each assignment they
\* held is assigned again through choose_least_loaded_collector with
\* max_idle = heartbeat_timeout.
IsDead(info, t_now, timeout) ==
  info.last_heartbeat # 0 /\ t_now - info.last_heartbeat > 2 * timeout

\* the assignments of the dead collectors, each with its holder's name
RECURSIVE Orphans(_, _, _)
Orphans(colls, t_now, timeout) ==
  IF colls = <<>> THEN <<>>
  ELSE (IF IsDead(Head(colls), t_now, timeout)
        THEN [k \in DOMAIN Head(colls).assigned_tasks |->
                [dead |-> Head(colls).name, entry |-> Head(colls).assigned_tasks[k]]]
        ELSE <<>>)
       \o Orphans(Tail(colls), t_now, timeout)

\* the (dead_collector, task_id, new_collector) triple of one reassignment;
\* new_collector is "" when no collector is available
FailureTriple(colls, t_now, timeout, orphan) ==
  LET i == choose_least_loaded_collector(colls, t_now, timeout) IN
  [dead |-> orphan.dead, task_id |-> orphan.entry.task_id,
   new |-> IF i = 0 THEN "" ELSE colls[i].name]

\* the result is the registry after the reassignments and the triples
RECURSIVE Reassign(_, _, _, _, _, _)
Reassign(colls, toks, t_now, timeout, orphans, failures) ==
  IF orphans = <<>> THEN [colls |-> colls, failures |-> failures]
  ELSE Reassign(AssignBalanced(colls, toks, t_now, timeout, Head(orphans).entry.task_id,
                               Head(orphans).entry.sources, Head(orphans).entry.end_time),
                toks, t_now, timeout, Tail(orphans),
                Append(failures, FailureTriple(colls, t_now, timeout, Head(orphans))))

\* a failover that leaves the token index as it is
FailoverTokensKept(colls, toks, t_now, timeout) == toks

FailoverTokens(colls, toks, t_now, timeout) ==
  [k \in {x \in DOMAIN toks :
            ~(toks[x] \in Names(colls)
              /\ IsDead(colls[IndexOf(colls, toks[x])], t_now, timeout))} |-> toks[k]]

failover_dead_collectors(colls, toks, t_now, timeout) ==
  Reassign(SelectSeq(colls, LAMBDA info : ~IsDead(info, t_now, timeout)),
           FailoverTokens(colls, toks, t_now, timeout), t_now, timeout,
           Orphans(colls, t_now, timeout), <<>>)

\* ------------------------------------------------ DispatcherService ----
\* a StartTask without the `if not user` test
StartTaskNoAuth(token, categories, location, start_time, end_time, task_id) ==
  /\ IF match_sources(SplitStrip(categories), SplitStrip(location), self_sources) = <<>>
       THEN /\ UNCHANGED tasks
            /\ resp' = Response("StartTask", FALSE, "", "No sources")
       ELSE /\ task_id \notin DOMAIN tasks
            /\ tasks' = create_task(task_id, token, start_time, end_time)
            /\ resp' = InternalError("StartTask", "TypeError")
  /\ UNCHANGED <<now, authVars, busVars, streamVars, sweeperVars, fleetVars, taskStreamVars, catalogVars, callVars>>

\* StartTask: the token check, match_sources, create_task, then the first
\* assign_task_balanced(task_id, [src.id], ts_end, heartbeat_timeout) call.
\* CollectorManager.assign_task_balanced takes (task_id, sources, end_time):
\* the call passes one positional argument too many, Python raises TypeError
\* before the method body runs, and grpc_safe turns it into INTERNAL.  The
\* row create_task committed stays PENDING; mark_dispatched and mark_failed
\* are never reached.
StartTask(token, categories, location, start_time, end_time, task_id) ==
  /\ IF token \notin DOMAIN user_tokens
       THEN /\ UNCHANGED tasks
            /\ resp' = Response("StartTask", FALSE, "", "Authentication required")
       ELSE IF match_sources(SplitStrip(categories), SplitStrip(location), self_sources) = <<>>
       THEN /\ UNCHANGED tasks
            /\ resp' = Response("StartTask", FALSE, "", "No sources")
       ELSE /\ task_id \notin DOMAIN tasks        \* task_id = uuid4().hex
            /\ tasks' = create_task(task_id, token, start_time, end_time)
            /\ resp' = InternalError("StartTask", "TypeError")
  /\ UNCHANGED <<now, authVars, busVars, streamVars, sweeperVars, fleetVars, taskStreamVars, catalogVars, callVars>>

\* ListAvailableCategories: self.sources = load_sources(...), then the
\* listing of the reloaded catalog
ListAvailableCategories ==
  /\ self_sources' = load_sources
  /\ resp' = [op |-> "ListAvailableCategories", success |-> TRUE, task_id |-> "",
              message |-> "", code |-> "OK",
              items |-> list_available_categories(load_sources)]
  /\ UNCHANGED <<sources_file, now, authVars, taskVars, busVars, streamVars, sweeperVars, fleetVars, taskStreamVars, callVars>>

\* ListAvailableLocations: the listing of self.sources as it is; the
\* handler has no load_sources call
ListAvailableLocations ==
  /\ resp' = [op |-> "ListAvailableLocations", success |-> TRUE, task_id |-> "",
              message |-> "", code |-> "OK",
              items |-> list_available_locations(self_sources)]
  /\ UNCHANGED <<now, authVars, taskVars, busVars, streamVars, sweeperVars, fleetVars, taskStreamVars, catalogVars, callVars>>

\* StreamResults(task_id), a generator:
\*   "waiting" at `with cond: cond.wait(timeout=1.0)`: the lock is not held
\*   "drain"   lock held, at the test of `while self._results[task_id]`
\*   "yielded" lock held, suspended at the yield
\*   "check"   lock released, before task_manager.get_task
\*   "closed"  after the break
StreamResultsOpen(s, task_id) ==
  /\ st_pc[s] = "idle"
  /\ st_pc' = [st_pc EXCEPT ![s] = "waiting"]
  /\ st_task' = [st_task EXCEPT ![s] = task_id]
  /\ UNCHANGED <<now, authVars, taskVars, busVars, st_out, sweeperVars, fleetVars, taskStreamVars, resp, catalogVars, callVars>>

\* `with cond:` takes the lock, cond.wait gives it up and returns (notified
\* or timed out) once it has the lock again.
StreamResultsWake(s) ==
  /\ st_pc[s] = "waiting"
  /\ cond_owner[st_task[s]] = ""
  /\ cond_owner' = [cond_owner EXCEPT ![st_task[s]] = s]
  /\ st_pc' = [st_pc EXCEPT ![s] = "drain"]
  /\ UNCHANGED <<now, authVars, taskVars, results, push_log, st_task, st_out, sweeperVars, fleetVars, taskStreamVars, resp, catalogVars, callVars>>

\* list.pop() in place of list.pop(0)
PopResultLast(q) == [head |-> q[Len(q)], rest |-> SubSeq(q, 1, Len(q) - 1)]

\* list.pop(0)
PopResult(q) == [head |-> Head(q), rest |-> Tail(q)]

\* `yield self._results[task_id].pop(0)`
StreamResultsYield(s) ==
  /\ st_pc[s] = "drain"
  /\ results[st_task[s]] # <<>>
  /\ LET p == PopResult(results[st_task[s]]) IN
       /\ results' = [results EXCEPT ![st_task[s]] = p.rest]
       /\ st_out' = [st_out EXCEPT ![s] = Append(@, p.head)]
  /\ st_pc' = [st_pc EXCEPT ![s] = "yielded"]
  /\ UNCHANGED <<now, authVars, taskVars, cond_owner, push_log, st_task, sweeperVars, fleetVars, taskStreamVars, resp, catalogVars, callVars>>

\* the consumer asks for the next item: the generator resumes
StreamResultsResume(s) ==
  /\ st_pc[s] = "yielded"
  /\ st_pc' = [st_pc EXCEPT ![s] = "drain"]
  /\ UNCHANGED <<now, authVars, taskVars, busVars, st_task, st_out, sweeperVars, fleetVars, taskStreamVars, resp, catalogVars, callVars>>

\* the queue is empty: leave the `with` block
StreamResultsRelease(s) ==
  /\ st_pc[s] = "drain"
  /\ results[st_task[s]] = <<>>
  /\ cond_owner' = [cond_owner EXCEPT ![st_task[s]] = ""]
  /\ st_pc' = [st_pc EXCEPT ![s] = "check"]
  /\ UNCHANGED <<now, authVars, taskVars, results, push_log, st_task, st_out, sweeperVars, fleetVars, taskStreamVars, resp, catalogVars, callVars>>

\* a check that breaks on any task record, whatever its status
StreamResultsCheckAny(s) ==
  /\ st_pc[s] = "check"
  /\ st_pc' = [st_pc EXCEPT ![s] =
       IF st_task[s] \in DOMAIN tasks THEN "closed" ELSE "waiting"]
  /\ UNCHANGED <<now, authVars, taskVars, busVars, st_task, st_out, sweeperVars, fleetVars, taskStreamVars, resp, catalogVars, callVars>>

\* task = get_task(task_id); break on a terminal status
StreamResultsCheck(s) ==
  /\ st_pc[s] = "check"
  /\ st_pc' = [st_pc EXCEPT ![s] =
       IF st_task[s] \in DOMAIN tasks /\ tasks[st_task[s]].status \in Terminal
       THEN "closed" ELSE "waiting"]
  /\ UNCHANGED <<now, authVars, taskVars, busVars, st_task, st_out, sweeperVars, fleetVars, taskStreamVars, resp, catalogVars, callVars>>

\* --------------------------------------- CollectorDispatcherService ----
\* SubmitTaskResult: `with cond: self._results[task_id].append(tr); notify_all()`.
\* The TaskResult is identified by its position in the run's submissions.
RECURSIVE SumLen(_, _)
SumLen(f, ks) ==
  IF ks = {} THEN 0
  ELSE LET k == CHOOSE x \in ks : TRUE IN Len(f[k]) + SumLen(f, ks \ {k})

PushCount == SumLen(push_log, TaskIds)

\* CollectorManager.record_task_result on a registry value
RecordResult(colls, toks, token, task_id, timestamp) ==
  IF token \in DOMAIN toks /\ toks[token] \in Names(colls)
  THEN [colls EXCEPT ![IndexOf(colls, toks[token])] = record_task_result(@, task_id, timestamp)]
  ELSE colls

SubmitTaskResult(token, task_id) ==
  /\ PushCount < MaxPush
  /\ cond_owner[task_id] = ""
  /\ collectors' = RecordResult(collectors, tokens, token, task_id, now)
  /\ resp' = Response("SubmitTaskResult", TokenAccepted(token), "",
                       IF TokenAccepted(token) THEN "Result recorded."
                       ELSE "Invalid or expired token.")
  /\ LET tr == [id |-> PushCount + 1,
                before_terminal |-> ~(task_id \in DOMAIN tasks /\ tasks[task_id].status \in Terminal),
                subscribers |-> {s \in StreamIds : st_task[s] = task_id
                                                  /\ st_pc[s] \notin {"idle", "closed"}}]
     IN /\ results' = [results EXCEPT ![task_id] = Append(@, tr)]
        /\ push_log' = [push_log EXCEPT ![task_id] = Append(@, tr)]
  /\ UNCHANGED <<now, authVars, taskVars, cond_owner, streamVars, sweeperVars, tokens, taskStreamVars, catalogVars, callVars>>

\* TaskManager.create_task called directly, as the manager's tests do; the
\* task starts at the clock's first instant
CreateTask(task_id, end_time) ==
  /\ task_id \notin DOMAIN tasks
  /\ tasks' = create_task(task_id, 0, 1, end_time)
  /\ UNCHANGED <<now, authVars, busVars, streamVars, sweeperVars, fleetVars, taskStreamVars, resp, catalogVars, callVars>>

\* TaskManager.mark_dispatched, mark_completed and mark_failed called
\* directly, as the manager's tests do
MarkDispatched(task_id) ==
  /\ tasks' = mark_dispatched(tasks, task_id)
  /\ UNCHANGED <<now, authVars, busVars, streamVars, sweeperVars, fleetVars, taskStreamVars, resp, catalogVars, callVars>>

MarkCompleted(task_id) ==
  /\ tasks' = mark_completed(tasks, task_id)
  /\ UNCHANGED <<now, authVars, busVars, streamVars, sweeperVars, fleetVars, taskStreamVars, resp, catalogVars, callVars>>

MarkFailed(task_id) ==
  /\ tasks' = mark_failed(tasks, task_id)
  /\ UNCHANGED <<now, authVars, busVars, streamVars, sweeperVars, fleetVars, taskStreamVars, resp, catalogVars, callVars>>

\* StreamTasks(token), a generator, one per collector name:
\*   "purge"    before purge_expired_tasks()
\*   "failover" before failover_dead_collectors(heartbeat_timeout)
\*   "snapshot" before get_collector_info(name) and info.get_tasks()
\*   "emit"     in `for tid, data in ...items()`
\*   "closed"   after the break, the abort or an exception
StreamTasksOpen(c, token) ==
  /\ tk_pc[c] = "idle"
  /\ token \in DOMAIN tokens /\ tokens[token] = c
  /\ tk_pc' = [tk_pc EXCEPT ![c] = "purge"]
  /\ tk_sent' = [tk_sent EXCEPT ![c] = {}]
  /\ UNCHANGED <<now, authVars, taskVars, busVars, streamVars, sweeperVars, fleetVars, tk_todo, tk_out, tk_failures, resp, catalogVars, callVars>>

\* `if not name: context.abort(UNAUTHENTICATED, "Invalid token")`: abort
\* raises, the call ends with that status and the loop is never entered
StreamTasksAbort(token) ==
  /\ token \notin DOMAIN tokens
  /\ resp' = [op |-> "StreamTasks", success |-> FALSE, task_id |-> "",
              message |-> "Invalid token", code |-> "UNAUTHENTICATED"]
  /\ UNCHANGED <<now, authVars, taskVars, busVars, streamVars, sweeperVars, fleetVars, taskStreamVars, catalogVars, callVars>>

StreamTasksPurge(c) ==
  /\ tk_pc[c] = "purge"
  /\ collectors' = PurgeExpired(collectors, now)
  /\ tk_pc' = [tk_pc EXCEPT ![c] = "failover"]
  /\ UNCHANGED <<now, authVars, taskVars, busVars, streamVars, sweeperVars, tokens, tk_sent, tk_todo, tk_out, tk_failures, resp, catalogVars, callVars>>

StreamTasksFailover(c) ==
  /\ tk_pc[c] = "failover"
  /\ LET r == failover_dead_collectors(collectors, tokens, now, HeartbeatTimeout) IN
       /\ collectors' = r.colls
       /\ tk_failures' = [tk_failures EXCEPT ![c] = r.failures]
  /\ tokens' = FailoverTokens(collectors, tokens, now, HeartbeatTimeout)
  /\ tk_pc' = [tk_pc EXCEPT ![c] = "snapshot"]
  /\ UNCHANGED <<now, authVars, taskVars, busVars, streamVars, sweeperVars, tk_sent, tk_todo, tk_out, resp, catalogVars, callVars>>

\* info = get_collector_info(name); `if not info: break`; get_tasks() copies
StreamTasksSnapshot(c) ==
  /\ tk_pc[c] = "snapshot"
  /\ IF c \in Names(collectors)
     THEN /\ tk_todo' = [tk_todo EXCEPT ![c] = collectors[IndexOf(collectors, c)].assigned_tasks]
          /\ tk_pc' = [tk_pc EXCEPT ![c] = "emit"]
     ELSE /\ tk_pc' = [tk_pc EXCEPT ![c] = "closed"]
          /\ UNCHANGED tk_todo
  /\ UNCHANGED <<now, authVars, taskVars, busVars, streamVars, sweeperVars, fleetVars, tk_sent, tk_out, tk_failures, resp, catalogVars, callVars>>

\* a loop body that adds tid to `sent` without yielding
EmitSilently(out, tid, data) == out

\* `yield ta`: task_id and data["sources"] of the TaskAssignment
EmitAssignment(out, tid, data) ==
  Append(out, [task_id |-> tid, sources |-> data.sources])

\* one turn of the for loop.  get_task returns None for an id the Task Store
\* does not hold, task["keywords"] raises TypeError in the generator and the
\* stream ends.
StreamTasksEmit(c) ==
  /\ tk_pc[c] = "emit"
  /\ tk_todo[c] # <<>>
  /\ LET data == Head(tk_todo[c]) IN
       IF data.task_id \in tk_sent[c]
       THEN /\ tk_todo' = [tk_todo EXCEPT ![c] = Tail(@)]
            /\ UNCHANGED <<tk_pc, tk_sent, tk_out, resp>>
       ELSE IF data.task_id \notin DOMAIN tasks
       THEN /\ tk_pc' = [tk_pc EXCEPT ![c] = "closed"]
            /\ tk_todo' = [tk_todo EXCEPT ![c] = <<>>]
            /\ resp' = StreamError("StreamTasks", "TypeError")
            /\ UNCHANGED <<tk_sent, tk_out>>
       ELSE /\ tk_out' = [tk_out EXCEPT ![c] = EmitAssignment(@, data.task_id, data)]
            /\ tk_sent' = [tk_sent EXCEPT ![c] = @ \cup {data.task_id}]
            /\ tk_todo' = [tk_todo EXCEPT ![c] = Tail(@)]
            /\ UNCHANGED <<tk_pc, resp>>
  /\ UNCHANGED <<now, authVars, taskVars, busVars, streamVars, sweeperVars, fleetVars, tk_failures, catalogVars, callVars>>

\* time.sleep(5), then the next iteration
StreamTasksSleep(c) ==
  /\ tk_pc[c] = "emit"
  /\ tk_todo[c] = <<>>
  /\ tk_pc' = [tk_pc EXCEPT ![c] = "purge"]
  /\ UNCHANGED <<now, authVars, taskVars, busVars, streamVars, sweeperVars, fleetVars, tk_sent, tk_todo, tk_out, tk_failures, resp, catalogVars, callVars>>

\* ----------------------------------------------------- the sweeper ----
\* The rows of one pass that satisfy `task["end_time"] <= now_iso`.  Both
\* strings are fixed when the pass starts (the rows are fetched at once and
\* end_time never changes), so the test is made for all rows here.
RECURSIVE ExpiredRows(_, _)
ExpiredRows(rows, now_iso) ==
  IF rows = <<>> THEN <<>>
  ELSE (IF StrLeq(IsoFormat(tasks[Head(rows)].end_time), now_iso)
        THEN <<Head(rows)>> ELSE <<>>) \o ExpiredRows(Tail(rows), now_iso)

\* after time.sleep(interval): now_iso = now().isoformat();
\* `for task in task_manager.list_pending_or_dispatched()`
SweeperList ==
  /\ sw_pc = "scan"
  /\ sw_todo = <<>>
  /\ sw_todo' = ExpiredRows(list_pending_or_dispatched, IsoFormat(now))
  /\ UNCHANGED <<now, authVars, taskVars, busVars, streamVars, sw_pc, fleetVars, taskStreamVars, resp, catalogVars, callVars>>

\* task_manager.mark_completed(task["task_id"])
SweeperMark ==
  /\ sw_pc = "scan"
  /\ sw_todo # <<>>
  /\ tasks' = mark_completed(tasks, Head(sw_todo))
  /\ sw_pc' = "notify"
  /\ UNCHANGED <<now, authVars, busVars, streamVars, sw_todo, fleetVars, taskStreamVars, resp, catalogVars, callVars>>

\* `with result_conds[task_id]: notify_all()`
SweeperNotify ==
  /\ sw_pc = "notify"
  /\ cond_owner[Head(sw_todo)] = ""
  /\ sw_todo' = Tail(sw_todo)
  /\ sw_pc' = "scan"
  /\ UNCHANGED <<now, authVars, taskVars, busVars, streamVars, fleetVars, taskStreamVars, resp, catalogVars, callVars>>

\* ------------------------------------------------------------ specs ----
Init ==
  /\ now = 1
  /\ uuids = 0
  /\ users = <<>>
  /\ user_tokens = <<>>
  /\ tasks = <<>>
  /\ results = [t \in TaskIds |-> <<>>]
  /\ cond_owner = [t \in TaskIds |-> ""]
  /\ push_log = [t \in TaskIds |-> <<>>]
  /\ st_pc = [s \in StreamIds |-> "idle"]
  /\ st_task = [s \in StreamIds |-> "t1"]
  /\ st_out = [s \in StreamIds |-> <<>>]
  /\ sw_pc = "scan"
  /\ sw_todo = <<>>
  /\ collectors = <<>>
  /\ tokens = <<>>
  /\ tk_pc = [c \in Collectors |-> "idle"]
  /\ tk_sent = [c \in Collectors |-> {}]
  /\ tk_todo = [c \in Collectors |-> <<>>]
  /\ tk_out = [c \in Collectors |-> <<>>]
  /\ tk_failures = [c \in Collectors |-> <<>>]
  /\ resp = Response("", FALSE, "", "")
  /\ self_sources = CatalogSources
  /\ sources_file = CatalogSources
  /\ rg = [r \in RegThreads |-> IdleRegister]
  /\ ab = [a \in AssignThreads |-> IdleAssign]

NextBus ==
  \/ now < MaxBusTime /\ Tick
  \/ \E u \in Usernames, p \in Passwords : u \notin DOMAIN users /\ Register(u, p)
  \/ \E u \in Usernames, p \in Passwords : Login(u, p)
  \/ \E tok \in 0..MaxUuid, c \in Categories, e \in {2, MaxBusTime + 1}, t \in BusTaskIds :
       StartTask(tok, c, LocInt, 1, e, t)
  \/ \E t \in BusTaskIds : cancel_task(t)
  \/ \E s \in StreamIds, t \in BusTaskIds : StreamResultsOpen(s, t)
  \/ \E s \in StreamIds : StreamResultsWake(s)
  \/ \E s \in StreamIds : StreamResultsYield(s)
  \/ \E s \in StreamIds : StreamResultsResume(s)
  \/ \E s \in StreamIds : StreamResultsRelease(s)
  \/ \E s \in StreamIds : StreamResultsCheck(s)
  \/ \E tok \in 0..MaxUuid, t \in BusTaskIds : SubmitTaskResult(tok, t)
  \/ SweeperList
  \/ SweeperMark
  \/ SweeperNotify

SpecBus == Init /\ [][NextBus]_vars

\* Fair scheduling of the sweeper thread and of the StreamResults loops (the
\* threads run, and the consumer keeps reading the stream).
FairBus ==
  /\ SpecBus
  /\ WF_vars(SweeperList) /\ WF_vars(SweeperMark) /\ WF_vars(SweeperNotify)
  /\ \A s \in StreamIds :
       /\ WF_vars(StreamResultsWake(s)) /\ WF_vars(StreamResultsYield(s))
       /\ WF_vars(StreamResultsResume(s)) /\ WF_vars(StreamResultsRelease(s))
       /\ WF_vars(StreamResultsCheck(s))

\* The Fleet Registry driven through the CollectorManager interface.
SourceLists == {<<"sA">>, <<"sB">>}

\* the end time of a task's assignments is the task's: t2 ends early
EndTimeOf(t) == IF t = "t2" THEN 2 ELSE MaxTime + 1

NextFleet ==
  \/ Tick
  \/ \E c \in Collectors, k \in Secrets : register_collector(c, k)
  \/ \E c \in Collectors, k \in Secrets : login_collector(c, k)
  \/ \E tok \in 1..MaxUuid : BeatsBelow(tok, MaxHeartbeats) /\ heartbeat(tok, now)
  \/ \E tok \in 1..MaxUuid, t \in TaskIds, src \in SourceLists :
       assign_task_to_collector(tok, t, src, EndTimeOf(t))
  \/ \E t \in TaskIds, src \in SourceLists :
       assign_task_balanced(t, src, EndTimeOf(t))

SpecFleet == Init /\ [][NextFleet]_vars

\* the collector is registered and has never logged in
NeverLoggedIn(c) ==
  c \in Names(collectors) /\ collectors[IndexOf(collectors, c)].token = 0

\* Assignment and expiry on the manager, as its test drives it: collectors
\* register and log in once, tasks are assigned by load, the clock runs and
\* purge_expired_tasks is called.
NextPurge ==
  \/ Tick
  \/ \E c \in Collectors, k \in Secrets :
       c \notin Names(collectors) /\ register_collector(c, k)
  \/ \E c \in Collectors, k \in Secrets : NeverLoggedIn(c) /\ login_collector(c, k)
  \/ \E t \in TaskIds, src \in SourceLists :
       assign_task_balanced(t, src, EndTimeOf(t))
  \/ purge_expired_tasks

SpecPurge == Init /\ [][NextPurge]_vars

\* Repeated heartbeats: collectors register and log in once, are given a
\* task by token and send heartbeats, several of them at one instant.
NextHeartbeat ==
  \/ Tick
  \/ \E c \in Collectors, k \in Secrets :
       c \notin Names(collectors) /\ register_collector(c, k)
  \/ \E c \in Collectors, k \in Secrets : NeverLoggedIn(c) /\ login_collector(c, k)
  \/ \E tok \in 1..MaxUuid, src \in SourceLists :
       assign_task_to_collector(tok, "t1", src, EndTimeOf("t1"))
  \/ \E tok \in 1..MaxUuid : BeatsBelow(tok, MaxBeats) /\ heartbeat(tok, now)

SpecHeartbeat == Init /\ [][NextHeartbeat]_vars

\* The StreamTasks loops over the registry: every collector registers and
\* logs in once and sends heartbeats with its token, the tasks are assigned
\* by token, and the stream is w2's.
NextFailover ==
  \/ Tick
  \/ \E c \in Collectors, k \in Secrets :
       c \notin Names(collectors) /\ register_collector(c, k)
  \/ \E c \in Collectors, k \in Secrets : NeverLoggedIn(c) /\ login_collector(c, k)
  \/ \E tok \in 1..MaxUuid :
       TokenAccepted(tok) /\ BeatsBelow(tok, MaxHeartbeats) /\ heartbeat(tok, now)
  \/ \E t \in FailoverTaskIds : CreateTask(t, EndTimeOf(t))
  \/ \E tok \in 1..MaxUuid, t \in FailoverTaskIds :
       assign_task_to_collector(tok, t, <<"sA">>, EndTimeOf(t))
  \/ \E tok \in 1..MaxUuid : StreamTasksOpen("w2", tok)
  \/ \E tok \in 1..MaxUuid : StreamTasksAbort(tok)
  \/ \E c \in Collectors : StreamTasksPurge(c)
  \/ \E c \in Collectors : StreamTasksFailover(c)
  \/ \E c \in Collectors : StreamTasksSnapshot(c)
  \/ \E c \in Collectors : StreamTasksEmit(c)
  \/ \E c \in Collectors : StreamTasksSleep(c)

SpecFailover == Init /\ [][NextFailover]_vars

\* Fair scheduling of the StreamTasks loops (the handler threads run, and
\* the collector keeps reading its stream).
FairFailover ==
  /\ SpecFailover
  /\ \A c \in Collectors :
       /\ WF_vars(StreamTasksPurge(c)) /\ WF_vars(StreamTasksFailover(c))
       /\ WF_vars(StreamTasksSnapshot(c)) /\ WF_vars(StreamTasksEmit(c))
       /\ WF_vars(StreamTasksSleep(c))

\* The token index under repeated logins and failover: the collectors
\* register (again after a failover removed them), log in any number of
\* times and send heartbeats, a task is assigned by token, and w2's stream
\* runs the purge and failover.
NextTokens ==
  \/ Tick
  \/ \E c \in Collectors, k \in Secrets :
       c \notin Names(collectors) /\ register_collector(c, k)
  \/ \E c \in Collectors, k \in Secrets : login_collector(c, k)
  \/ \E tok \in 1..MaxUuid :
       TokenAccepted(tok) /\ BeatsBelow(tok, MaxHeartbeats) /\ heartbeat(tok, now)
  \/ \E t \in FailoverTaskIds : CreateTask(t, EndTimeOf(t))
  \/ \E tok \in 1..MaxUuid, t \in FailoverTaskIds :
       assign_task_to_collector(tok, t, <<"sA">>, EndTimeOf(t))
  \/ \E tok \in 1..MaxUuid : StreamTasksOpen("w2", tok)
  \/ \E tok \in 1..MaxUuid : StreamTasksAbort(tok)
  \/ \E c \in Collectors : StreamTasksPurge(c)
  \/ \E c \in Collectors : StreamTasksFailover(c)
  \/ \E c \in Collectors : StreamTasksSnapshot(c)
  \/ \E c \in Collectors : StreamTasksEmit(c)
  \/ \E c \in Collectors : StreamTasksSleep(c)

SpecTokens == Init /\ [][NextTokens]_vars

\* Per-source placement on one collector: w2 registers, logs in once and
\* sends heartbeats, the sources of t1 are placed on it one call at a time
\* (the calls of StartTask's `for src in matched` loop, made by token), and
\* w2's StreamTasks loop runs.
NextDeliver ==
  \/ Tick
  \/ \E k \in Secrets : "w2" \notin Names(collectors) /\ register_collector("w2", k)
  \/ \E k \in Secrets : NeverLoggedIn("w2") /\ login_collector("w2", k)
  \/ \E tok \in 1..MaxUuid :
       TokenAccepted(tok) /\ BeatsBelow(tok, MaxHeartbeats) /\ heartbeat(tok, now)
  \/ \E t \in FailoverTaskIds : CreateTask(t, EndTimeOf(t))
  \/ \E tok \in 1..MaxUuid, t \in FailoverTaskIds, src \in SourceLists :
       assign_task_to_collector(tok, t, src, EndTimeOf(t))
  \/ \E tok \in 1..MaxUuid : StreamTasksOpen("w2", tok)
  \/ \E tok \in 1..MaxUuid : StreamTasksAbort(tok)
  \/ \E c \in Collectors : StreamTasksPurge(c)
  \/ \E c \in Collectors : StreamTasksFailover(c)
  \/ \E c \in Collectors : StreamTasksSnapshot(c)
  \/ \E c \in Collectors : StreamTasksEmit(c)
  \/ \E c \in Collectors : StreamTasksSleep(c)

SpecDeliver == Init /\ [][NextDeliver]_vars

\* Fair scheduling of the StreamTasks loops (the handler threads run, and
\* the collector keeps reading its stream).
FairDeliver ==
  /\ SpecDeliver
  /\ \A c \in Collectors :
       /\ WF_vars(StreamTasksPurge(c)) /\ WF_vars(StreamTasksFailover(c))
       /\ WF_vars(StreamTasksSnapshot(c)) /\ WF_vars(StreamTasksEmit(c))
       /\ WF_vars(StreamTasksSleep(c))

\* StartTask against a fleet: the clients register and log in, the
\* collectors register, log in and send heartbeats.
NextStart ==
  \/ Tick
  \/ \E u \in Usernames, p \in Passwords : Register(u, p)
  \/ \E u \in Usernames, p \in Passwords : Login(u, p)
  \/ \E c \in Collectors, k \in Secrets : register_collector(c, k)
  \/ \E c \in Collectors, k \in Secrets : login_collector(c, k)
  \/ \E tok \in 1..MaxUuid : BeatsBelow(tok, MaxHeartbeats) /\ heartbeat(tok, now)
  \/ \E tok \in 0..MaxUuid, c \in Categories, t \in TaskIds :
       StartTask(tok, c, LocInt, 1, EndTimeOf(t), t)

SpecStart == Init /\ [][NextStart]_vars

\* StartTask with a search window chosen by the client: a start_time at the
\* clock's first instant or after every end_time.
StartTimes == {1, MaxTime + 2}

NextWindow ==
  \/ Tick
  \/ \E u \in Usernames, p \in Passwords : Register(u, p)
  \/ \E u \in Usernames, p \in Passwords : Login(u, p)
  \/ \E tok \in 0..MaxUuid, c \in Categories, s \in StartTimes, t \in TaskIds :
       StartTask(tok, c, LocInt, s, EndTimeOf(t), t)

SpecWindow == Init /\ [][NextWindow]_vars

\* The Task Store driven through the TaskManager interface.
NextStore ==
  \/ Tick
  \/ \E t \in TaskIds : CreateTask(t, EndTimeOf(t))
  \/ \E t \in TaskIds : MarkDispatched(t)
  \/ \E t \in TaskIds : MarkCompleted(t)
  \/ \E t \in TaskIds : MarkFailed(t)
  \/ \E t \in TaskIds : cancel_task(t)

SpecStore == Init /\ [][NextStore]_vars

\* The User Store behind Register and Login: two usernames, two passwords.
AuthUsernames == {"alice", "bob"}
AuthPasswords == {"pw", "other"}

NextAuth ==
  \/ Tick
  \/ \E u \in AuthUsernames, p \in AuthPasswords : Register(u, p)
  \/ \E u \in AuthUsernames, p \in AuthPasswords : Login(u, p)

SpecAuth == Init /\ [][NextAuth]_vars

\* The Source Catalog: the file is edited, the listings and match_sources
\* are called.  Requests: [], ["g"], [" G"], ["n", "x"], [" "], ["I"], ["u "].
RequestLists ==
  { <<>>, <<CatGen>>, << <<32, 71>> >>, <<CatNon, <<120>> >>, << <<32>> >>,
    << <<73>> >>, << <<117, 32>> >> }

\* the categories field of the StartTask requests: "g", " G,x", "n"
StartCategories == {CatGen, <<32, 71, 44, 120>>, CatNon}

NextCatalog ==
  \/ \E u \in Usernames, p \in Passwords : Register(u, p)
  \/ \E u \in Usernames, p \in Passwords : Login(u, p)
  \/ \E tok \in 0..MaxUuid, c \in StartCategories, t \in TaskIds :
       StartTask(tok, c, LocInt, 1, EndTimeOf(t), t)
  \/ \E content \in CatalogFiles : WriteCatalogFile(content)
  \/ ListAvailableCategories
  \/ ListAvailableLocations
  \/ \E task_categories \in RequestLists, task_locations \in RequestLists :
       MatchSources(task_categories, task_locations)

SpecCatalog == Init /\ [][NextCatalog]_vars

\* Register calls running on two handler threads, and Login.
NextRegister ==
  \/ \E r \in RegThreads, u \in AuthUsernames, p \in AuthPasswords : RegisterSelect(r, u, p)
  \/ \E r \in RegThreads : RegisterInsert(r)
  \/ \E u \in AuthUsernames, p \in AuthPasswords : Login(u, p)

SpecRegister == Init /\ [][NextRegister]_vars

\* assign_task_balanced calls running on two threads over a fleet that has
\* registered and logged in; a thread starts a call for a task nobody holds
\* and no other call is placing.
Unplaced(t) ==
  /\ \A i \in DOMAIN collectors :
       \A k \in DOMAIN collectors[i].assigned_tasks :
         collectors[i].assigned_tasks[k].task_id # t
  /\ \A a \in AssignThreads : ab[a].task_id # t

NextAssign ==
  \/ \E c \in Collectors, k \in Secrets : register_collector(c, k)
  \/ \E c \in Collectors, k \in Secrets : NeverLoggedIn(c) /\ login_collector(c, k)
  \/ \E a \in AssignThreads, t \in TaskIds, src \in SourceLists :
       Unplaced(t) /\ AssignCollect(a, t, src, EndTimeOf(t))
  \/ \E a \in AssignThreads : AssignMin(a)
  \/ \E a \in AssignThreads : AssignRecord(a)

SpecAssign == Init /\ [][NextAssign]_vars

\* ----------------------------------------------------------- claims ----
StatusOf(t) == IF t \in DOMAIN tasks THEN tasks[t].status ELSE "NONE"

AllowedTransitions ==
  { <<"PENDING", "DISPATCHED">>, <<"PENDING", "FAILED">>, <<"PENDING", "COMPLETED">>,
    <<"DISPATCHED", "COMPLETED">>, <<"PENDING", "CANCELLED">>,
    <<"DISPATCHED", "CANCELLED">> }

\* C1: every status change of a task is one of PENDING->DISPATCHED,
\* PENDING->FAILED, PENDING->COMPLETED, DISPATCHED->COMPLETED,
\* PENDING->CANCELLED, DISPATCHED->CANCELLED; in particular a COMPLETED,
\* FAILED or CANCELLED task never changes status again.
C1_StatusLifecycle ==
  [][\A t \in DOMAIN tasks :
       tasks'[t].status # tasks[t].status
         => <<tasks[t].status, tasks'[t].status>> \in AllowedTransitions]_vars

IsPrefix(a, b) == Len(a) <= Len(b) /\ a = SubSeq(b, 1, Len(a))

Subscribed(s) == st_pc[s] # "idle"

OnlySubscriber(s) ==
  /\ Subscribed(s)
  /\ \A o \in StreamIds \ {s} : ~(Subscribed(o) /\ st_task[o] = st_task[s])

\* C2: with one StreamResults subscriber on a task, what it has yielded is at
\* every moment the first part of what SubmitTaskResult pushed for the task,
\* in push order (so nothing is yielded twice or out of order).
C2_YieldOrderIsPushOrder ==
  \A s \in StreamIds : OnlySubscriber(s) => IsPrefix(st_out[s], push_log[st_task[s]])

C2_Witness ==
  \E s \in StreamIds : OnlySubscriber(s) /\ Len(st_out[s]) >= 2

InSeq(x, q) == \E i \in DOMAIN q : q[i] = x

\* C3: an envelope pushed while several streams are subscribed to its task is
\* delivered to each of them: for each such stream that is still open the
\* envelope has been yielded to it or is still queued for it.
C3_DeliveredToEverySubscriber ==
  \A t \in TaskIds : \A i \in DOMAIN push_log[t] :
    \A s \in push_log[t][i].subscribers :
      st_pc[s] # "closed"
        => InSeq(push_log[t][i], st_out[s]) \/ InSeq(push_log[t][i], results[t])

\* C4: a stream never closes on a terminal status while its task's queue
\* still holds an envelope that was pushed before the status became terminal.
C4_CloseLeavesNoTail ==
  [][\A s \in StreamIds :
       (st_pc[s] # "closed" /\ st_pc'[s] = "closed")
         => \A i \in DOMAIN results[st_task[s]] :
              ~results[st_task[s]][i].before_terminal]_vars

Expired(t) ==
  /\ t \in DOMAIN tasks
  /\ tasks[t].status \in {"PENDING", "DISPATCHED"}
  /\ tasks[t].end_time <= now

\* C5 as stated: every PENDING or DISPATCHED task whose end_time <= now is
\* eventually COMPLETED, and every stream open on it eventually closes.
C5_ExpiredEventuallyCompleted ==
  \A t \in TaskIds :
    /\ Expired(t) ~> (StatusOf(t) = "COMPLETED")
    /\ \A s \in StreamIds :
         (Expired(t) /\ Subscribed(s) /\ st_task[s] = t) ~> (st_pc[s] = "closed")

\* C5 amended: every PENDING or DISPATCHED task whose end_time <= now is
\* eventually COMPLETED by the sweeper unless cancel_task cancels it first,
\* and every stream open on it eventually closes.
C5_ExpiredEventuallyTerminal ==
  \A t \in TaskIds :
    /\ Expired(t) ~> (StatusOf(t) \in {"COMPLETED", "CANCELLED"})
    /\ \A s \in StreamIds :
         (Expired(t) /\ Subscribed(s) /\ st_task[s] = t) ~> (st_pc[s] = "closed")

C5_Witness ==
  \E s \in StreamIds :
    /\ st_pc[s] = "closed"
    /\ st_task[s] \in DOMAIN tasks
    /\ tasks[st_task[s]].status = "COMPLETED"
    /\ tasks[st_task[s]].end_time <= now


\* -------------------------------------------------- Fleet Registry claims
HeldIds(info) == {info.assigned_tasks[i].task_id : i \in DOMAIN info.assigned_tasks}

\* the sources recorded for task_id, as a sequence (<<>> when there is no entry)
SourcesOf(info, task_id) ==
  IF task_id \in HeldIds(info)
  THEN (CHOOSE e \in Range(info.assigned_tasks) : e.task_id = task_id).sources
  ELSE <<>>

NoDuplicates(q) == \A i, j \in DOMAIN q : q[i] = q[j] => i = j

\* last_heartbeat older than 2 * heartbeat_timeout at time t_now
OlderThanTwice(info, t_now) ==
  info.last_heartbeat # 0 /\ t_now - info.last_heartbeat > 2 * HeartbeatTimeout

\* a live worker of a registry value: heartbeat within heartbeat_timeout
LiveNames(colls, t_now) ==
  {colls[i].name : i \in {j \in DOMAIN colls :
      colls[j].last_heartbeat # 0 /\ t_now - colls[j].last_heartbeat <= HeartbeatTimeout}}

InfoOf(colls, name) == colls[IndexOf(colls, name)]

\* C6: after a failover call no worker whose last_heartbeat was older than
\* 2 * heartbeat_timeout is left in the registry or in the token index, and
\* every task such a worker held is held by a live worker, unless no live
\* worker exists.
C6_FailoverPost ==
  [][(\E c \in Collectors : StreamTasksFailover(c)) =>
       LET removed == {n \in Names(collectors) : OlderThanTwice(InfoOf(collectors, n), now)}
           orphaned == UNION {HeldIds(InfoOf(collectors, n)) : n \in removed}
           live == LiveNames(collectors', now)
       IN /\ \A n \in removed :
               /\ n \notin Names(collectors')
               /\ \A k \in DOMAIN tokens' : tokens'[k] # n
          /\ live # {} =>
               \A t \in orphaned :
                 \E n \in live \ removed : t \in HeldIds(InfoOf(collectors', n))
     ]_vars

\* a failover call has moved t1 from w1 to w2
C6_Witness ==
  /\ "w1" \notin Names(collectors)
  /\ \E c \in Collectors :
       [dead |-> "w1", task_id |-> "t1", new |-> "w2"] \in Range(tk_failures[c])
  /\ "w2" \in Names(collectors)
  /\ "t1" \in HeldIds(InfoOf(collectors, "w2"))

\* C7: w1 holds task T and has not sent a heartbeat for more than
\* 2 * heartbeat_timeout, w2 is live with an open StreamTasks stream: w2's
\* stream eventually yields a TaskAssignment for T, as long as w1 stays
\* silent, w2 stays live, its stream stays open and T has not ended.
C7_Scenario(T) ==
  /\ "w1" \in Names(collectors) /\ "w2" \in Names(collectors)
  /\ T \in HeldIds(InfoOf(collectors, "w1"))
  /\ OlderThanTwice(InfoOf(collectors, "w1"), now)
  /\ "w2" \in LiveNames(collectors, now)
  /\ tk_pc["w2"] \notin {"idle", "closed"}
  /\ T \in DOMAIN tasks

C7_Yielded(T) == \E i \in DOMAIN tk_out["w2"] : tk_out["w2"][i].task_id = T

C7_Left(T) ==
  \/ "w2" \notin LiveNames(collectors, now)
  \/ tk_pc["w2"] = "closed"
  \/ "w1" \in Names(collectors) /\ ~OlderThanTwice(InfoOf(collectors, "w1"), now)
  \/ now >= EndTimeOf(T)

C8_AssignMergesSources ==
  [][\A tok \in 1..MaxUuid, t \in TaskIds, src \in SourceLists :
       assign_task_to_collector(tok, t, src, EndTimeOf(t)) =>
         LET before == InfoOf(collectors, tokens[tok])
             after == InfoOf(collectors', tokens[tok])
         IN /\ Range(SourcesOf(after, t)) = Range(SourcesOf(before, t)) \cup Range(src)
            /\ NoDuplicates(SourcesOf(after, t))
     ]_vars

\* C9: a worker's tasks_assigned_count changes only by one, and only in a
\* step that gives it a task_id it did not hold.
C9_CountsFirstAppearance ==
  [][\A n \in Names(collectors) \cap Names(collectors') :
       LET before == InfoOf(collectors, n)
           after == InfoOf(collectors', n)
       IN after.tasks_assigned_count # before.tasks_assigned_count =>
            /\ after.tasks_assigned_count = before.tasks_assigned_count + 1
            /\ HeldIds(after) \ HeldIds(before) # {}
     ]_vars

\* C10: at most one token is accepted for each worker.
AcceptedTokens(name) == {k \in DOMAIN tokens : TokenAccepted(k) /\ tokens[k] = name}

C10_OneTokenPerWorker ==
  \A c \in Collectors : Cardinality(AcceptedTokens(c)) <= 1


\* ------------------------------------------------ error-path claims ----
\* C11: a SubmitTaskResult whose token is not a valid worker token answers
\* success = false, changes no worker record and appends nothing to the
\* task's Result Bus queue.
C11_BogusTokenMutatesNothing ==
  [][\A tok \in 0..MaxUuid, t \in TaskIds :
       (SubmitTaskResult(tok, t) /\ ~TokenAccepted(tok)) =>
         /\ ~resp'.success
         /\ collectors' = collectors
         /\ results' = results
     ]_vars

\* C12: a Heartbeat whose token is not in the token index answers
\* success = false and leaves the registry and the token index as they were.
C12_HeartbeatUnknownToken ==
  [][\A tok \in 1..MaxUuid :
       (heartbeat(tok, now) /\ tok \notin DOMAIN tokens) =>
         /\ resp'.op = "Heartbeat" /\ ~resp'.success
         /\ collectors' = collectors
         /\ tokens' = tokens
     ]_vars

\* a Heartbeat has been refused while a logged-in worker holds a task
C12_Witness ==
  /\ resp.op = "Heartbeat" /\ ~resp.success
  /\ \E i \in DOMAIN collectors :
       collectors[i].token # 0 /\ collectors[i].assigned_tasks # <<>>

\* C13: register_collector of a registered name fails and leaves every
\* record as it was; of a new name it succeeds and adds a record with no
\* token, no heartbeat and no assignment, leaving the others as they were.
C13_RegisterCollector ==
  [][\A c \in Collectors, k \in Secrets :
       register_collector(c, k) =>
         IF c \in Names(collectors)
         THEN /\ resp'.op = "RegisterCollector" /\ ~resp'.success
              /\ collectors' = collectors /\ tokens' = tokens
         ELSE /\ resp'.op = "RegisterCollector" /\ resp'.success
              /\ Names(collectors') = Names(collectors) \cup {c}
              /\ \A n \in Names(collectors) : InfoOf(collectors', n) = InfoOf(collectors, n)
              /\ InfoOf(collectors', c).secret = k
              /\ InfoOf(collectors', c).token = 0
              /\ InfoOf(collectors', c).last_heartbeat = 0
              /\ InfoOf(collectors', c).assigned_tasks = <<>>
              /\ tokens' = tokens
     ]_vars

\* a registration has been refused for a worker that is logged in and holds
\* a task
C13_Witness ==
  /\ resp.op = "RegisterCollector" /\ ~resp.success
  /\ \E i \in DOMAIN collectors :
       collectors[i].token # 0 /\ collectors[i].assigned_tasks # <<>>


\* ------------------------------------------- Assignment Engine claims ----
IdleLimits == {0, 1, 2, DefaultMaxIdle}

\* the positions of the workers whose last_heartbeat is within max_idle of now
Within(max_idle) ==
  {i \in DOMAIN collectors :
     collectors[i].last_heartbeat # 0 /\ now - collectors[i].last_heartbeat <= max_idle}

Load(i) == Len(collectors[i].assigned_tasks)

MinLoaded(max_idle) ==
  {i \in Within(max_idle) : \A j \in Within(max_idle) : Load(i) <= Load(j)}

\* C14: choose_least_loaded(max_idle) returns a worker with a heartbeat
\* within max_idle whose number of assignments is minimal among those, and
\* returns none exactly when there is no such worker.
C14_LeastLoadedWithinIdle ==
  \A m \in IdleLimits :
    LET i == choose_least_loaded_collector(collectors, now, m) IN
      /\ (i = 0) <=> (Within(m) = {})
      /\ i # 0 => i \in MinLoaded(m)

\* the least loaded worker is too old for max_idle = 1 and the choice is a
\* worker that holds more
C14_Witness ==
  /\ Within(1) # {}
  /\ \E j \in DOMAIN collectors \ Within(1) :
       /\ collectors[j].last_heartbeat # 0
       /\ Load(j) < Load(choose_least_loaded_collector(collectors, now, 1))

C16_NoAssignmentToIdle ==
  [][\A t \in TaskIds, src \in SourceLists :
       assign_task_balanced(t, src, EndTimeOf(t)) =>
         \A i \in DOMAIN collectors :
           collectors'[i] # collectors[i] =>
             now - collectors[i].last_heartbeat <= HeartbeatTimeout
     ]_vars

\* C17: with every registered worker live, an assign_task_balanced of a task
\* nobody holds adds one assignment to a worker of minimal load and to no
\* other, and loads that differ by at most one keep differing by at most one.
AllLive == collectors # <<>> /\ Within(DefaultMaxIdle) = DOMAIN collectors

SpreadAtMostOne(colls) ==
  \A i, j \in DOMAIN colls :
    Len(colls[i].assigned_tasks) <= Len(colls[j].assigned_tasks) + 1

Matches(c) == match_sources(<<c>>, <<LocInt>>, self_sources) # <<>>

\* C18: a StartTask that has matched a source and created the task leaves
\* it DISPATCHED with success = true, or FAILED with success = false and an
\* empty task_id; never PENDING.
C18_StartTaskSettlesStatus ==
  [][\A tok \in 0..MaxUuid, c \in Categories, t \in TaskIds :
       (/\ StartTask(tok, c, LocInt, 1, EndTimeOf(t), t)
        /\ tok \in DOMAIN user_tokens /\ Matches(c)) =>
         \/ tasks'[t].status = "DISPATCHED" /\ resp'.success /\ resp'.task_id = t
         \/ tasks'[t].status = "FAILED" /\ ~resp'.success /\ resp'.task_id = ""
     ]_vars

\* no source of the catalog has category c and location "i"
NoSourceFor(c) ==
  \A i \in DOMAIN self_sources :
    c \notin Range(self_sources[i].categories)
      \/ LocInt \notin Range(self_sources[i].locations)

\* C19: a StartTask whose categories and locations match no source answers
\* success = false with an empty task_id, creates no task record and gives
\* no worker an assignment.
C19_NoMatchChangesNothing ==
  [][\A tok \in 0..MaxUuid, c \in Categories, t \in TaskIds :
       (NoSourceFor(c) /\ StartTask(tok, c, LocInt, 1, EndTimeOf(t), t)) =>
         /\ resp'.op = "StartTask" /\ ~resp'.success /\ resp'.task_id = ""
         /\ resp'.code = "OK"
         /\ tasks' = tasks
         /\ collectors' = collectors
     ]_vars

\* an authenticated StartTask has been answered "No sources" while a live
\* collector was waiting for work
C19_Witness ==
  /\ resp.op = "StartTask" /\ resp.message = "No sources"
  /\ user_tokens # <<>>
  /\ Within(HeartbeatTimeout) # {}

\* C20: with a matching source and a registered, logged-in collector with a
\* recent heartbeat, StartTask answers success with the task_id, the task is
\* stored DISPATCHED and a collector holds an assignment for it with a
\* source list that is not empty.
C20_StartTaskDispatches ==
  [][\A tok \in 0..MaxUuid, c \in Categories, t \in TaskIds :
       (/\ StartTask(tok, c, LocInt, 1, EndTimeOf(t), t)
        /\ tok \in DOMAIN user_tokens /\ Matches(c)
        /\ Within(HeartbeatTimeout) # {}) =>
         /\ resp'.success /\ resp'.task_id = t
         /\ t \in DOMAIN tasks' /\ tasks'[t].status = "DISPATCHED"
         /\ \E i \in DOMAIN collectors' : SourcesOf(collectors'[i], t) # <<>>
     ]_vars

YieldedIds(c) == {tk_out[c][i].task_id : i \in DOMAIN tk_out[c]}

\* C22: one StreamTasks stream yields a task_id at most once, and every
\* entry of the assigned_tasks a poll iteration has read is yielded on the
\* stream, in this iteration or an earlier one, when the iteration visits it.
C22_EachAssignmentOnce ==
  [][\A c \in Collectors :
       /\ \A i, j \in DOMAIN tk_out'[c] :
            tk_out'[c][i].task_id = tk_out'[c][j].task_id => i = j
       /\ StreamTasksEmit(c) =>
            Head(tk_todo[c]).task_id \in {tk_out'[c][i].task_id : i \in DOMAIN tk_out'[c]}
     ]_vars

\* C23: a StreamTasks stream of worker W ends at the first poll iteration
\* that finds W gone from the registry and never ends while W is registered;
\* a StreamTasks call with a token the token index does not hold yields no
\* assignment.
C23_StreamEndsWithWorker ==
  [][/\ \A c \in Collectors :
          /\ (StreamTasksSnapshot(c) /\ c \notin Names(collectors)) => tk_pc'[c] = "closed"
          /\ (tk_pc[c] \notin {"idle", "closed"} /\ tk_pc'[c] = "closed")
               => c \notin Names(collectors)
     /\ \A tok \in 1..MaxUuid :
          StreamTasksAbort(tok) => tk_out' = tk_out /\ tk_pc' = tk_pc
     ]_vars

\* ------------------------------------------------------ expiry claims ----
HeldPairs(colls) ==
  UNION {{<<colls[i].name, t>> : t \in HeldIds(colls[i])} : i \in DOMAIN colls}

\* C24: right after purge_expired_tasks no worker holds an assignment with
\* end_time <= now, every assignment with a later end_time is held as
\* before, the list returned is exactly the (worker, task_id) pairs removed,
\* and has_task_expired is true before and false after for each task purged.
C24_PurgePost ==
  [][purge_expired_tasks =>
       LET expired == resp'.expired IN
       /\ resp'.op = "purge_expired_tasks"
       /\ Len(collectors') = Len(collectors)
       /\ \A i \in DOMAIN collectors :
            /\ \A e \in Range(collectors'[i].assigned_tasks) : e.end_time > now
            /\ \A e \in Range(collectors[i].assigned_tasks) :
                 e.end_time > now => e \in Range(collectors'[i].assigned_tasks)
            /\ Range(collectors'[i].assigned_tasks) \subseteq Range(collectors[i].assigned_tasks)
            /\ [collectors'[i] EXCEPT !.assigned_tasks = <<>>]
                 = [collectors[i] EXCEPT !.assigned_tasks = <<>>]
       /\ Range(expired) = HeldPairs(collectors) \ HeldPairs(collectors')
       /\ NoDuplicates(expired)
       /\ \A p \in Range(expired) :
            /\ has_task_expired(collectors, p[2], now)
            /\ ~has_task_expired(collectors', p[2], now)
     ]_vars

\* a purge has removed the task that ended and left the other: a worker that
\* was given two tasks holds t1 alone, and t2's end_time has passed
C24_Witness ==
  \E i \in DOMAIN collectors :
    /\ resp.op = "purge_expired_tasks"
    /\ <<collectors[i].name, "t2">> \in Range(resp.expired)
    /\ collectors[i].tasks_assigned_count = 2
    /\ HeldIds(collectors[i]) = {"t1"}
    /\ now >= EndTimeOf("t2")

\* C25: an assignment that fails in a StreamTasks poll (its task_id has no
\* Task Store record) does not end the loop: the stream stays open and the
\* iteration goes on with the assignments that remain.
C25_BadRecordSkipped ==
  [][\A c \in Collectors :
       (/\ StreamTasksEmit(c)
        /\ Head(tk_todo[c]).task_id \notin tk_sent[c]
        /\ Head(tk_todo[c]).task_id \notin DOMAIN tasks) =>
         /\ tk_pc'[c] = "emit"
         /\ tk_todo'[c] = Tail(tk_todo[c])
     ]_vars

\* C26: an exception raised while a StreamTasks stream is iterated ends the
\* call with status INTERNAL and the exception's message as the detail.
C26_StreamExceptionIsInternal ==
  [][\A c \in Collectors :
       (StreamTasksEmit(c) /\ tk_pc'[c] = "closed") =>
         /\ resp'.op = "StreamTasks"
         /\ resp'.code = "INTERNAL"
         /\ resp'.message = "TypeError"
     ]_vars

\* ------------------------------------------------- Task Store claims ----
\* C27: every task record has start_time <= end_time (a StartTask with
\* start_time later than end_time creates no record).
C27_StartNotAfterEnd ==
  \A t \in DOMAIN tasks : tasks[t].start_time <= tasks[t].end_time

\* C28: on an existing task mark_dispatched, mark_completed, mark_failed and
\* cancel_task leave the status get_task returns at DISPATCHED, COMPLETED,
\* FAILED and CANCELLED, whatever it was, and touch no other task; a task
\* just created is PENDING.
C28_MarkSetsStatus ==
  /\ \A t \in DOMAIN tasks :
       /\ get_task(mark_dispatched(tasks, t), t).status = "DISPATCHED"
       /\ get_task(mark_completed(tasks, t), t).status = "COMPLETED"
       /\ get_task(mark_failed(tasks, t), t).status = "FAILED"
       /\ get_task(update_status(tasks, t, "CANCELLED"), t).status = "CANCELLED"
       /\ \A o \in DOMAIN tasks \ {t} :
            /\ get_task(mark_dispatched(tasks, t), o) = tasks[o]
            /\ get_task(mark_completed(tasks, t), o) = tasks[o]
            /\ get_task(mark_failed(tasks, t), o) = tasks[o]
            /\ get_task(update_status(tasks, t, "CANCELLED"), o) = tasks[o]
  /\ \A t \in TaskIds \ DOMAIN tasks :
       get_task(create_task(t, 0, 1, EndTimeOf(t)), t).status = "PENDING"

\* both tasks have been created and marked: one is FAILED, the other
\* DISPATCHED after its end_time
C28_Witness ==
  /\ DOMAIN tasks = TaskIds
  /\ tasks["t1"].status = "FAILED"
  /\ tasks["t2"].status = "DISPATCHED"
  /\ now >= EndTimeOf("t2")

\* ---------------------------------------------------- heartbeat claims ----
\* C29: a successful heartbeat sets the calling worker's last_heartbeat to
\* the timestamp, adds one to its heartbeat counter and changes nothing
\* else, so a second call with the same token and timestamp leaves the
\* registry as the first left it but for one more count.
C29_HeartbeatIdempotent ==
  [][\A tok \in 1..MaxUuid :
       (heartbeat(tok, now) /\ TokenAccepted(tok)) =>
         LET i == IndexOf(collectors, tokens[tok])
             once == record_heartbeat(collectors[i], now)
             twice == record_heartbeat(once, now)
         IN /\ resp'.op = "Heartbeat" /\ resp'.success
            /\ Len(collectors') = Len(collectors)
            /\ collectors'[i] = [collectors[i] EXCEPT !.last_heartbeat = now,
                                                      !.heartbeat_count = @ + 1]
            /\ \A j \in DOMAIN collectors \ {i} : collectors'[j] = collectors[j]
            /\ tokens' = tokens
            /\ twice = [once EXCEPT !.heartbeat_count = @ + 1]
            /\ collectors[i].last_heartbeat = now =>
                 collectors'[i] = [collectors[i] EXCEPT !.heartbeat_count = @ + 1]
     ]_vars

\* a worker that holds a task has logged in and sent two heartbeats with
\* its token, all at the first instant
C29_Witness ==
  \E i \in DOMAIN collectors :
    /\ now = 1
    /\ collectors[i].heartbeat_count = 3
    /\ collectors[i].last_heartbeat = 1
    /\ collectors[i].assigned_tasks # <<>>
    /\ resp.op = "Heartbeat" /\ resp.success

\* ---------------------------------------------------- User Store claims ----
\* C30: Register of a username that is present answers success = false and
\* leaves the table alone; Register of a new username makes authenticate
\* true for the password given and for no other; and no step changes or
\* removes a stored row.  So authenticate(u, p) is true exactly when u was
\* registered and p is the password of its first successful registration.
C30_FirstRegistrationWins ==
  [][/\ \A u \in AuthUsernames, p \in AuthPasswords :
          Register(u, p) =>
            IF u \in DOMAIN users
            THEN /\ resp'.op = "Register" /\ ~resp'.success
                 /\ users' = users
            ELSE /\ resp'.op = "Register" /\ resp'.success
                 /\ \A q \in AuthPasswords : authenticate_user(u, q)' <=> (q = p)
     /\ \A u \in DOMAIN users : u \in DOMAIN users' /\ users'[u] = users[u]
     /\ \A u \in AuthUsernames \ DOMAIN users :
          \A q \in AuthPasswords : ~authenticate_user(u, q)
     ]_vars

\* a second Register of alice, with another password, has been refused:
\* alice still logs in with the first one
C30_Witness ==
  /\ resp.op = "Register" /\ ~resp.success
  /\ authenticate_user("alice", "pw") /\ ~authenticate_user("alice", "other")
  /\ authenticate_user("bob", "other") /\ ~authenticate_user("bob", "pw")
  /\ user_tokens # <<>>

\* ------------------------------------------------ Source Catalog claims ----
\* the tags of one catalog field as written: the parts between commas that
\* are not blank
FieldTags(entries) ==
  {part \in UNION {Range(Split(entries[i])) : i \in DOMAIN entries} : Strip(part) # <<>>}

\* equal after trimming and lowercasing both sides
SameTag(a, b) == Lower(Strip(a)) = Lower(Strip(b))

Wanted(source, task_categories, task_locations) ==
  /\ \E a \in FieldTags(source.categories), r \in Range(task_categories) : SameTag(a, r)
  /\ \E a \in FieldTags(source.locations), r \in Range(task_locations) : SameTag(a, r)

\* C31: match_sources returns exactly the sources of the catalog, in catalog
\* order, with at least one category equal after trimming and lowercasing
\* both sides to a requested category and at least one location equal in the
\* same way to a requested location; the result is empty when nothing
\* matches or when either request list is empty.
C31_MatchExact ==
  [][\A task_categories \in RequestLists, task_locations \in RequestLists :
       MatchSources(task_categories, task_locations) =>
         /\ resp'.matched =
              SelectSeq(self_sources,
                        LAMBDA source : Wanted(source, task_categories, task_locations))
         /\ (task_categories = <<>> \/ task_locations = <<>>) => resp'.matched = <<>>
     ]_vars

\* on the reloaded catalog with " G,n" and "I ", a match call has returned
\* sA and not sB
C31_Witness ==
  /\ resp.op = "match_sources"
  /\ Len(self_sources) = 2
  /\ Len(resp.matched) = 1
  /\ resp.matched[1] = self_sources[1]
  /\ resp.matched[1].locations = << <<73, 32>> >>

\* C32: ListAvailableCategories and ListAvailableLocations both answer from
\* the catalog file as it is at the call: after the file has changed, the
\* next ListAvailableLocations returns the locations of the new file,
\* whether or not ListAvailableCategories was called in between.
C32_ListingsReadTheFile ==
  [][/\ ListAvailableCategories =>
          resp'.items = list_available_categories(sources_file)
     /\ ListAvailableLocations =>
          resp'.items = list_available_locations(sources_file)
     ]_vars

\* ------------------------------------------------ StreamResults claims ----
\* C33: no StreamResults stream holds the Result Bus mutex of its task while
\* it is suspended at a yield.
C33_NoLockAtYield ==
  \A s \in StreamIds : st_pc[s] = "yielded" => cond_owner[st_task[s]] # s

\* C34: a StreamResults stream on an existing task closes only in a step
\* that has read a status of COMPLETED, FAILED or CANCELLED from the Task
\* Store; while the status is PENDING or DISPATCHED it stays open.
C34_ClosesOnlyOnTerminal ==
  [][\A s \in StreamIds :
       (st_pc[s] # "closed" /\ st_pc'[s] = "closed") =>
         /\ st_task[s] \in DOMAIN tasks
         /\ tasks[st_task[s]].status \in Terminal
     ]_vars

\* a stream has closed on a task the client cancelled
C34_Witness ==
  \E s \in StreamIds :
    /\ st_pc[s] = "closed"
    /\ st_task[s] \in DOMAIN tasks
    /\ tasks[st_task[s]].status = "CANCELLED"

\* C39: every StreamResults stream eventually closes with the sweeper and
\* the stream's own loop running: a stream open on a task_id that has no
\* Task Store record ends (or the record appears) instead of polling on.
C39_UnknownTaskStreamEnds ==
  \A s \in StreamIds :
    (Subscribed(s) /\ st_task[s] \notin DOMAIN tasks)
      ~> (st_pc[s] = "closed" \/ st_task[s] \in DOMAIN tasks)

\* ------------------------------------------------- token index claims ----
\* C37: the token index and the registry agree: every token of the index
\* maps to the name of a registered collector, and the current token of
\* every collector that has one is in the index and maps to that collector.
C37_TokenIndexAgrees ==
  /\ \A tok \in DOMAIN tokens : tokens[tok] \in Names(collectors)
  /\ \A i \in DOMAIN collectors :
       collectors[i].token # 0 =>
         /\ collectors[i].token \in DOMAIN tokens
         /\ tokens[collectors[i].token] = collectors[i].name

\* w2 has logged in twice and both tokens are in the index, and a failover
\* has removed the other collector with its token
C37_Witness ==
  /\ uuids = 3
  /\ Names(collectors) = {"w2"}
  /\ Cardinality(DOMAIN tokens) = 2
  /\ collectors[1].token \in DOMAIN tokens

\* ------------------------------------------- concurrent Register claims ----
\* C40: when Register calls for the same new username run concurrently, the
\* call that finds the username taken when it writes returns success = false
\* with the already-exists message and no INTERNAL error, the other returns
\* success = true, and one user record exists afterwards.
C40_ConcurrentRegister ==
  [][\A r \in RegThreads :
       RegisterInsert(r) =>
         IF rg[r].username \in DOMAIN users
         THEN /\ resp'.code = "OK" /\ ~resp'.success
              /\ resp'.message = "Username already exists."
              /\ users' = users
         ELSE /\ resp'.code = "OK" /\ resp'.success
              /\ DOMAIN users' = DOMAIN users \cup {rg[r].username}
     ]_vars

\* --------------------------------------- concurrent assignment claims ----
\* C36: with assign_task_balanced calls running concurrently, each
\* assignment is recorded on a collector that is live and least-loaded in
\* the registry state in which it is recorded.
C36_RecordedOnLeastLoaded ==
  [][\A a \in AssignThreads :
       AssignRecord(a) =>
         \E i \in MinLoaded(DefaultMaxIdle) : collectors[i].token = ab[a].token
     ]_vars

\* ------------------------------------------- per-source delivery claims ----
\* the sources src of t1 have been placed on w2, w2 is live with an open
\* stream and t1 is stored and has not ended
C35_Placed(src) ==
  /\ "w2" \in Names(collectors)
  /\ SourcesOf(InfoOf(collectors, "w2"), "t1") = src
  /\ "w2" \in LiveNames(collectors, now)
  /\ tk_pc["w2"] \notin {"idle", "closed"}
  /\ "t1" \in DOMAIN tasks
  /\ now < EndTimeOf("t1")

C35_Delivered(src) ==
  \A id \in Range(src) :
    \E i \in DOMAIN tk_out["w2"] :
      tk_out["w2"][i].task_id = "t1" /\ id \in Range(tk_out["w2"][i].sources)

C35_Left ==
  \/ "w2" \notin LiveNames(collectors, now)
  \/ tk_pc["w2"] = "closed"
  \/ now >= EndTimeOf("t1")

\* C35: every source of a task placed on worker W is eventually delivered to
\* W in a TaskAssignment for that task, as long as W stays live, its stream
\* stays open and the task has not ended, also when a poll of the stream
\* runs between two of the per-source placements.
C35_EverySourceDelivered ==
  \A src \in SourceLists : C35_Placed(src) ~> (C35_Delivered(src) \/ C35_Left)

====
